---- MODULE Spec2Model ----
(***************************************************************************)
(* Swept AABB against a voxel grid: server/utils/sweep.rs.                 *)
(*                                                                         *)
(* Numbers.  The code computes in f32.  The model computes in exact        *)
(* rationals <<n, d>> (d > 0, lowest terms) and leaves f32 rounding of the *)
(* products and sums out, with the one f32 effect that decides cell        *)
(* indices kept: EPSILON = 1e-10 is below half an ulp of every f32 of      *)
(* magnitude 1 or more, so coord +/- EPSILON rounds back to coord at every *)
(* nonzero integer coordinate, and only a coordinate of exactly 0.0 is     *)
(* moved across the cell boundary by it.  The other coordinates the model  *)
(* reaches are small fractions, far from a cell boundary, where the bias   *)
(* does not change the floor.  Displacements are drawn from vectors whose  *)
(* Euclidean norm is rational, so sqrt is exact.                           *)
(***************************************************************************)
EXTENDS Integers, FiniteSets, Sequences, TLC

Axes == 0 .. 2

\* ---------------------------------------------------------------- bounds
\* Positions and displacements are multiples of 1/Res of a voxel.
Res == 4
\* Displacement components reach MaxDisp/Res voxels along an axis.
MaxDisp == 6
\* The count of decision-capability invocations saturates here.
MaxCalls == 3

\* ------------------------------------------------------ exact arithmetic
Abs(n) == IF n < 0 THEN -n ELSE n

RECURSIVE Gcd(_, _)
Gcd(a, b) == IF b = 0 THEN a ELSE Gcd(b, a % b)

Lcm(a, b) == (a * b) \div Gcd(a, b)

\* the rational n/d in lowest terms, denominator positive
R(n, d) ==
  LET s == IF d < 0 THEN -1 ELSE 1
      g == Gcd(Abs(n), Abs(d))
  IN  <<(s * n) \div g, (s * d) \div g>>

Zero == <<0, 1>>
One == <<1, 1>>
Half == <<1, 2>>
OfInt(k) == <<k, 1>>

RAdd(a, b) == R(a[1] * b[2] + b[1] * a[2], a[2] * b[2])
RSub(a, b) == R(a[1] * b[2] - b[1] * a[2], a[2] * b[2])
RMul(a, b) ==
  LET g1 == Gcd(Abs(a[1]), b[2])
      g2 == Gcd(Abs(b[1]), a[2])
  IN  R((a[1] \div g1) * (b[1] \div g2), (a[2] \div g2) * (b[2] \div g1))
RDiv(a, b) == RMul(a, R(b[2], b[1]))
RNeg(a) == <<-a[1], a[2]>>
RAbs(a) == <<Abs(a[1]), a[2]>>
RLt(a, b) == a[1] * b[2] < b[1] * a[2]
RLe(a, b) == a[1] * b[2] <= b[1] * a[2]
RMax(a, b) == IF RLt(a, b) THEN b ELSE a
RMin(a, b) == IF RLt(b, a) THEN b ELSE a

\* f32::floor
Floor(a) == a[1] \div a[2]
IsInt(a) == a[2] = 1

\* f32::round: nearest integer, halves away from zero
Round(a) ==
  IF a[1] >= 0 THEN OfInt(Floor(RAdd(a, Half)))
  ELSE OfInt(-Floor(RAdd(RNeg(a), Half)))

\* integer square root (exact on every value the sweep reaches)
ISqrt(s) ==
  IF \E r \in 0 .. s : r * r = s
  THEN CHOOSE r \in 0 .. s : r * r = s
  ELSE CHOOSE r \in 0 .. s : r * r <= s /\ (r + 1) * (r + 1) > s

ZeroVec == [i \in Axes |-> Zero]
ZeroInts == [i \in Axes |-> 0]

\* (vec.0 * vec.0 + vec.1 * vec.1 + vec.2 * vec.2).sqrt()
Norm(v) ==
  LET D == Lcm(Lcm(v[0][2], v[1][2]), v[2][2])
      n == [i \in Axes |-> v[i][1] * (D \div v[i][2])]
      m == Abs(n[0]) + Abs(n[1]) + Abs(n[2])
      g == IF m = 0 THEN 1 ELSE Gcd(Gcd(Abs(n[0]), Abs(n[1])), Abs(n[2]))
      k == [i \in Axes |-> n[i] \div g]
  IN  R(g * ISqrt(k[0] * k[0] + k[1] * k[1] + k[2] * k[2]), D)

\* f32::MAX, and the IEEE +infinity that 1.0 / 0.0 yields: two values above
\* every time the sweep reaches, with F32Max < Infinity.
F32Max == <<100000, 1>>
Infinity == <<100001, 1>>

\* --------------------------------------------------------------- helpers
\* floor(coord + k * EPSILON) as f32 computes it, EPSILON = 1e-10: at a
\* nonzero integer the sum rounds back to coord, at 0.0 it is k * EPSILON.
BiasedFloor(coord, k) ==
  IF coord = Zero THEN (IF k < 0 THEN -1 ELSE 0) ELSE Floor(coord)

lead_edge_to_int(coord, step) == BiasedFloor(coord, -step)

trail_edge_to_int_swapped(coord, step) == BiasedFloor(coord, -step)

trail_edge_to_int(coord, step) == BiasedFloor(coord, step)

\* super::math::approx_equals: equal within a small tolerance
ApproxTol == <<1, 1000000>>
approx_equals(a, b) == RLt(RAbs(RSub(a, b)), ApproxTol)

\* Aabb::translate: both corners shift by delta
translate(box, delta) ==
  [base |-> [i \in Axes |-> RAdd(box.base[i], delta[i])],
   max |-> [i \in Axes |-> RAdd(box.max[i], delta[i])]]

\* GetVoxel over a grid descriptor: kind "box" is solid inside lo..hi,
\* kind "cavity" is solid outside lo..hi.
InCells(g, x, y, z) ==
  /\ g.lo[0] <= x /\ x <= g.hi[0]
  /\ g.lo[1] <= y /\ y <= g.hi[1]
  /\ g.lo[2] <= z /\ z <= g.hi[2]

get_voxel_of(g, x, y, z) ==
  IF g.kind = "box"
  THEN (IF InCells(g, x, y, z) THEN 1 ELSE 0)
  ELSE (IF InCells(g, x, y, z) THEN 0 ELSE 1)

\* (x0..x1).step_by(step as usize): a negative step casts to usize::MAX, so
\* a non-empty range yields its first element only; x0 >= x1 is empty.
StepByRange(x0, x1, step) ==
  IF x0 >= x1 THEN {}
  ELSE IF step > 0 THEN {x \in x0 .. (x1 - 1) : (x - x0) % step = 0}
  ELSE {x0}

\* ------------------------------------------------------------ init_sweep
\* The per-segment state; Coords3::default() and 0.0 before the first call.
DefaultSeg ==
  [t |-> Zero, max_t |-> Zero, step |-> ZeroInts, tr |-> ZeroVec,
   ldi |-> ZeroInts, tri |-> ZeroInts, normed |-> ZeroVec,
   t_delta |-> ZeroVec, t_next |-> ZeroVec]

init_sweep(old, v, mx, bs) ==
  LET m == Norm(v)
      dir(i) == v[i][1] >= 0
      st == [i \in Axes |-> IF dir(i) THEN 1 ELSE -1]
      lead == [i \in Axes |-> IF dir(i) THEN mx[i] ELSE bs[i]]
      trl == [i \in Axes |-> IF dir(i) THEN bs[i] ELSE mx[i]]
      ld == [i \in Axes |-> lead_edge_to_int(lead[i], st[i])]
      ti == [i \in Axes |-> trail_edge_to_int(trl[i], st[i])]
      nm == [i \in Axes |-> RDiv(v[i], m)]
      td == [i \in Axes |->
               IF nm[i] = Zero THEN Infinity ELSE RAbs(RDiv(One, nm[i]))]
      dist == [i \in Axes |->
                 IF dir(i) THEN RSub(OfInt(ld[i] + 1), lead[i])
                 ELSE RSub(lead[i], OfInt(ld[i]))]
      tn == [i \in Axes |->
               IF RLt(td[i], F32Max) THEN RMul(td[i], dist[i]) ELSE F32Max]
  IN  IF approx_equals(m, Zero)
      THEN [old EXCEPT !.t = Zero, !.max_t = m]
      ELSE [t |-> Zero, max_t |-> m, step |-> st, tr |-> trl, ldi |-> ld,
            tri |-> ti, normed |-> nm, t_delta |-> td, t_next |-> tn]

\* ---------------------------------------------------------- step_forward
PickAxisLowest(tn) ==
  IF RLe(tn[0], tn[1])
  THEN (IF RLe(tn[0], tn[2]) THEN 0 ELSE 2)
  ELSE (IF RLe(tn[1], tn[2]) THEN 1 ELSE 2)

PickAxis(tn) ==
  IF RLt(tn[0], tn[1])
  THEN (IF RLt(tn[0], tn[2]) THEN 0 ELSE 2)
  ELSE (IF RLt(tn[1], tn[2]) THEN 1 ELSE 2)

step_forward(s) ==
  LET a == PickAxis(s.t_next)
      dt == RSub(s.t_next[a], s.t)
      ntr == [i \in Axes |-> RAdd(s.tr[i], RMul(dt, s.normed[i]))]
  IN  [axis |-> a,
       seg |-> [s EXCEPT !.t = s.t_next[a],
                         !.ldi[a] = s.ldi[a] + s.step[a],
                         !.t_next[a] = RAdd(s.t_next[a], s.t_delta[a]),
                         !.tr = ntr,
                         !.tri = [i \in Axes |->
                                    trail_edge_to_int(ntr[i], s.step[i])]]]

\* ------------------------------------------------------ check_collisions
\* Iterator::step_by asserts step != 0.
StepByPanics(s) == \E i \in Axes : s.step[i] = 0

SlabStart(i_axis, s, i) == IF i_axis = i THEN s.ldi[i] ELSE s.tri[i]

check_collisions(i_axis, g, s) ==
  \E x \in StepByRange(SlabStart(i_axis, s, 0), s.ldi[0] + s.step[0],
                       s.step[0]) :
    \E y \in StepByRange(SlabStart(i_axis, s, 1), s.ldi[1] + s.step[1],
                         s.step[1]) :
      \E z \in StepByRange(SlabStart(i_axis, s, 2), s.ldi[2] + s.step[2],
                           s.step[2]) :
        get_voxel_of(g, x, y, z) # 0


\* ------------------------------------------------------ handle_collision
\* vector moved so far: vec[i] * (t / max_t)
moved(s, v) == [i \in Axes |-> RMul(v[i], RDiv(s.t, s.max_t))]

left_to_move_whole(v, dv) == v

\* vector left to move: vec[i] - dv
left_to_move(v, dv) == [i \in Axes |-> RSub(v[i], dv[i])]

\* The decision capability.  It receives its own copy of `left`
\* (left.clone(), passed by value) and returns "stop"; `left` is the copy as
\* the capability leaves it.
\*   "stop"  : returns true
\*   "slide" : zeroes the blocked axis of its vector, returns false
\*   "keep"  : changes nothing, returns false
Policies == {"stop", "slide", "keep"}

Decide(policy, cum, a, d, left) ==
  [stop |-> policy = "stop",
   left |-> IF policy = "slide" THEN [left EXCEPT ![a] = Zero] ELSE left]

\* ---------------------------------------------------------------- sweep
distance_on_finish_t(cum, s) == RAdd(cum, s.t)

\* cumulative_t += max_t
distance_on_finish(cum, s) == RAdd(cum, s.max_t)

net_translation(d, box, bs, mx) ==
  [i \in Axes |->
     IF d[i][1] > 0 THEN RSub(mx[i], box.max[i])
     ELSE RSub(bs[i], box.base[i])]

sweep_box_always(nt, d, box, bs, mx) ==
  translate(box, net_translation(d, box, bs, mx))

\* if !no_translate { ... aabb.translate(&result) }
sweep_box(nt, d, box, bs, mx) ==
  IF nt THEN box ELSE translate(box, net_translation(d, box, bs, mx))

\* ---------------------------------------------------------------- inputs
\* a vector of multiples of 1/Res
V(x, y, z) ==
  [i \in Axes |-> R(IF i = 0 THEN x ELSE IF i = 1 THEN y ELSE z, Res)]

I3(x, y, z) == [i \in Axes |-> IF i = 0 THEN x ELSE IF i = 1 THEN y ELSE z]

Box(b, m) == [base |-> b, max |-> m]

Boxes ==
  { Box(V(1, 1, 1), V(3, 3, 3)),
    Box(V(0, 0, 0), V(Res, Res, Res)),
    Box(V(-Res, -Res, -Res), V(0, 0, 0)),
    Box(V(1, 0, 0), V(3, 2, 2)),
    Box(V(0, -Res, -Res), V(Res, 0, 0)) }

\* directions whose Euclidean norm is an integer
Directions ==
  { I3(1, 0, 0), I3(-1, 0, 0), I3(0, 1, 0), I3(0, -1, 0), I3(0, 0, 1),
    I3(0, 0, -1), I3(1, 2, 2), I3(2, 2, 1), I3(-1, -2, -2), I3(2, -2, 1) }

\* a displacement below the tolerance of approx_equals, and not 0.0
Tiny == [i \in Axes |-> IF i = 0 THEN <<1, 10000000>> ELSE Zero]

Scales(u) == {j \in 1 .. MaxDisp : \A i \in Axes : Abs(j * u[i]) <= MaxDisp}

Displacements ==
  UNION { { V(k * u[0], k * u[1], k * u[2]) : k \in Scales(u) } :
            u \in Directions }
  \cup {ZeroVec, Tiny}

\* the first cell index at or beyond a coordinate
Ceil(a) == -Floor(RNeg(a))

\* cells a box overlaps
CellLo(box) == [i \in Axes |-> Floor(box.base[i])]
CellHi(box) == [i \in Axes |-> Ceil(box.max[i]) - 1]

\* cells beyond Far in a wall's own direction are passable
Far == 4

EmptyGrid == [kind |-> "box", lo |-> I3(1, 1, 1), hi |-> I3(0, 0, 0)]

GridsFor(box) ==
  { EmptyGrid,
    \* solid everywhere except the cells the box occupies
    [kind |-> "cavity", lo |-> CellLo(box), hi |-> CellHi(box)],
    \* the voxel (1, 0, 0)
    [kind |-> "box", lo |-> I3(1, 0, 0), hi |-> I3(1, 0, 0)] }
  \cup
  \* walls across axis 0 on either side of the box, one cell or Far thick
  { [kind |-> "box", lo |-> I3(CellHi(box)[0] + 1, -Far, -Far),
     hi |-> I3(CellHi(box)[0] + w, Far, Far)] : w \in {1, Far} }
  \cup
  { [kind |-> "box", lo |-> I3(CellLo(box)[0] - w, -Far, -Far),
     hi |-> I3(CellLo(box)[0] - 1, Far, Far)] : w \in {1, Far} }

\* ----------------------------------------------------------------- state
VARIABLES
  get_voxel,      \* sweep's sampler, as a grid descriptor
  aabb,           \* the caller's box
  dir,            \* the displacement passed to sweep
  callback,       \* the decision capability's policy
  no_translate,   \* report-only flag
  aabb0,          \* the caller's box before the call
  vec, base, max, \* do_sweep's working copies
  seg,            \* t, max_t, step, tr, ldi, tri, normed, t_delta, t_next
  cumulative_t,
  axis,
  dist,           \* sweep's return value
  cbLeft,         \* the capability's vector as it left it at the last call
  calls,          \* invocations of the capability, saturating at MaxCalls
  pc

vars ==
  <<get_voxel, aabb, dir, callback, no_translate, aabb0, vec, base, max,
    seg, cumulative_t, axis, dist, cbLeft, calls, pc>>

inputs == <<get_voxel, dir, callback, no_translate, aabb0>>

Init ==
  /\ aabb \in Boxes
  /\ aabb0 = aabb
  /\ get_voxel \in GridsFor(aabb)
  /\ dir \in Displacements
  /\ callback \in Policies
  /\ no_translate \in BOOLEAN
  /\ vec = ZeroVec /\ base = ZeroVec /\ max = ZeroVec
  /\ seg = DefaultSeg
  /\ cumulative_t = Zero
  /\ axis = 0
  /\ dist = Zero
  /\ cbLeft = ZeroVec
  /\ calls = 0
  /\ pc = "start"

\* sweep clones its arguments; do_sweep runs init_sweep and returns 0.0 when
\* max_t == 0.0
Start ==
  /\ pc = "start"
  /\ vec' = dir
  /\ max' = aabb.max
  /\ base' = aabb.base
  /\ seg' = init_sweep(DefaultSeg, dir, aabb.max, aabb.base)
  /\ IF seg'.max_t = Zero
     THEN pc' = "translate" /\ dist' = Zero
     ELSE pc' = "step" /\ dist' = dist
  /\ UNCHANGED <<inputs, aabb, cumulative_t, axis, cbLeft, calls>>

\* axis = step_forward(...), before the loop and at the end of its body
StepForward ==
  /\ pc = "step"
  /\ axis' = step_forward(seg).axis
  /\ seg' = step_forward(seg).seg
  /\ pc' = "check"
  /\ UNCHANGED <<inputs, aabb, vec, base, max, cumulative_t, dist, cbLeft,
                 calls>>

\* while t <= max_t { if check_collisions(...) { ... } ... }
LoopTest ==
  /\ pc = "check"
  /\ pc' = IF ~RLe(seg.t, seg.max_t) THEN "finish"
           ELSE IF StepByPanics(seg) THEN "panic"
           ELSE IF check_collisions(axis, get_voxel, seg) THEN "collide"
           ELSE "step"
  /\ UNCHANGED <<inputs, aabb, vec, base, max, seg, cumulative_t, axis,
                 dist, cbLeft, calls>>

HandleCollision ==
  /\ pc = "collide"
  /\ LET cum == RAdd(cumulative_t, seg.t)
         d == seg.step[axis]
         dv == moved(seg, vec)
         left == left_to_move(vec, dv)
         b1 == [i \in Axes |-> RAdd(base[i], dv[i])]
         m1 == [i \in Axes |-> RAdd(max[i], dv[i])]
         b2 == IF d > 0 THEN b1 ELSE [b1 EXCEPT ![axis] = Round(b1[axis])]
         m2 == IF d > 0 THEN [m1 EXCEPT ![axis] = Round(m1[axis])] ELSE m1
         res == Decide(callback, cum, axis, d, left)
         nseg == init_sweep(seg, left, m2, b2)
     IN  /\ cumulative_t' = cum
         /\ base' = b2
         /\ max' = m2
         /\ cbLeft' = res.left
         /\ calls' = IF calls < MaxCalls THEN calls + 1 ELSE calls
         /\ IF res.stop
            THEN /\ pc' = "translate"
                 /\ dist' = cum
                 /\ UNCHANGED <<vec, seg>>
            ELSE /\ vec' = left
                 /\ seg' = nseg
                 /\ IF nseg.max_t = Zero
                    THEN pc' = "translate" /\ dist' = cum
                    ELSE pc' = "step" /\ dist' = dist
  /\ UNCHANGED <<inputs, aabb, axis>>

\* the segment ended unobstructed
Finish ==
  /\ pc = "finish"
  /\ cumulative_t' = distance_on_finish(cumulative_t, seg)
  /\ base' = vec
  /\ max' = vec
  /\ dist' = cumulative_t'
  /\ pc' = "translate"
  /\ UNCHANGED <<inputs, aabb, vec, seg, axis, cbLeft, calls>>

\* back in sweep: apply the net translation unless report-only
Translate ==
  /\ pc = "translate"
  /\ aabb' = sweep_box(no_translate, dir, aabb, base, max)
  /\ pc' = "done"
  /\ UNCHANGED <<inputs, vec, base, max, seg, cumulative_t, axis, dist,
                 cbLeft, calls>>

Next ==
  \/ Start
  \/ StepForward
  \/ LoopTest
  \/ HandleCollision
  \/ Finish
  \/ Translate

Spec == Init /\ [][Next]_vars

TypeOK == pc \in {"start", "step", "check", "collide", "finish",
                  "translate", "done", "panic"}

\* ------------------------------------------------------------ vocabulary
Magnitude == Norm(dir)

\* the Initializer's verdict on the first segment
Degenerate == approx_equals(Magnitude, Zero)

Running == pc \in {"step", "check", "collide", "finish"}

Solid(x, y, z) == get_voxel_of(get_voxel, x, y, z) # 0

\* the box overlaps a solid voxel before the call
OverlapsSolid ==
  \E x \in CellLo(aabb0)[0] .. CellHi(aabb0)[0] :
    \E y \in CellLo(aabb0)[1] .. CellHi(aabb0)[1] :
      \E z \in CellLo(aabb0)[2] .. CellHi(aabb0)[2] : Solid(x, y, z)

\* The open interval of s for which the box moved by s * dir overlaps cell
\* index c along axis i, as <<lower, upper>>.
Never == <<One, Zero>>
Always == <<RNeg(F32Max), F32Max>>

OverlapSpan(i, c) ==
  LET b == aabb0.base[i]
      m == aabb0.max[i]
      d == dir[i]
  IN  IF d = Zero
      THEN (IF RLt(b, OfInt(c + 1)) /\ RLt(OfInt(c), m) THEN Always
            ELSE Never)
      ELSE IF d[1] > 0
      THEN <<RDiv(RSub(OfInt(c), m), d), RDiv(RSub(OfInt(c + 1), b), d)>>
      ELSE <<RDiv(RSub(OfInt(c + 1), b), d), RDiv(RSub(OfInt(c), m), d)>>

\* the volume swept by the box along dir enters cell (x, y, z)
SweptEnters(x, y, z) ==
  LET sx == OverlapSpan(0, x)
      sy == OverlapSpan(1, y)
      sz == OverlapSpan(2, z)
      lo == RMax(RMax(sx[1], sy[1]), sz[1])
      hi == RMin(RMin(sx[2], sy[2]), sz[2])
  IN  RLt(lo, hi) /\ RLt(lo, One) /\ RLt(Zero, hi)

HullLo(i) == Floor(RMin(aabb0.base[i], RAdd(aabb0.base[i], dir[i])))
HullHi(i) == Ceil(RMax(aabb0.max[i], RAdd(aabb0.max[i], dir[i]))) - 1

SweptHitsSolid ==
  \E x \in HullLo(0) .. HullHi(0) :
    \E y \in HullLo(1) .. HullHi(1) :
      \E z \in HullLo(2) .. HullHi(2) :
        Solid(x, y, z) /\ SweptEnters(x, y, z)

\* every cell just beyond a leading face of the box is solid
LeadingCellsSolid ==
  \A a \in Axes :
    dir[a] # Zero =>
      LET layer == IF dir[a][1] > 0 THEN CellHi(aabb0)[a] + 1
                   ELSE CellLo(aabb0)[a] - 1
          lo == [CellLo(aabb0) EXCEPT ![a] = layer]
          hi == [CellHi(aabb0) EXCEPT ![a] = layer]
      IN  \A x \in lo[0] .. hi[0] :
            \A y \in lo[1] .. hi[1] :
              \A z \in lo[2] .. hi[2] : Solid(x, y, z)

\* the smallest time-to-first-boundary-crossing the Initializer computes
FirstCrossing ==
  LET tn == init_sweep(DefaultSeg, dir, aabb0.max, aabb0.base).t_next
  IN  RMin(RMin(tn[0], tn[1]), tn[2])

\* the working box's leading corner on the axis that last advanced
LeadingCorner == IF seg.step[axis] > 0 THEN max[axis] ELSE base[axis]

\* a face of the box lies on an integer boundary, dir moves the box away
\* from it along that axis, and the solid voxels are exactly the layer of
\* cells on the far side of that boundary
FarSideLayer(a) ==
  IF dir[a][1] > 0 THEN Floor(aabb0.base[a]) - 1 ELSE Floor(aabb0.max[a])

MovesAwayFromWall ==
  \E a \in Axes :
    /\ dir[a] # Zero
    /\ IsInt(IF dir[a][1] > 0 THEN aabb0.base[a] ELSE aabb0.max[a])
    /\ get_voxel.kind = "box"
    /\ get_voxel.lo[a] = FarSideLayer(a)
    /\ get_voxel.hi[a] = FarSideLayer(a)

\* ---------------------------------------------------------------- claims
\* C1: with an empty grid, a non-degenerate displacement and normal mode,
\* the unobstructed completion leaves the working corners at the original
\* corners plus dir, and after the call the caller's box has moved by
\* exactly dir.
C1_EmptyGridMovesByDir ==
  (get_voxel = EmptyGrid /\ ~Degenerate /\ ~no_translate) =>
     /\ pc \in {"translate", "done"} =>
          /\ base = translate(aabb0, dir).base
          /\ max = translate(aabb0, dir).max
     /\ pc = "done" => aabb = translate(aabb0, dir)

\* C2: while the sweep goes on after a collision the capability answered
\* with "continue", the displacement of the running segment is the vector
\* as the capability left it.
C2_NextSegmentTakesCapabilityVector ==
  (Running /\ calls > 0) => vec = cbLeft

\* C3: no tunneling: when the box starts clear of solid voxels and the
\* volume it sweeps along a non-degenerate displacement enters a solid
\* cell, the capability has been invoked by the time sweep returns.
C3_NoTunneling ==
  (pc = "done" /\ ~Degenerate /\ ~OverlapsSolid /\ SweptHitsSolid) =>
     calls > 0

\* C4: in report-only mode the caller's box keeps the corners it had
\* before the call, at every point of the call and after it.
C4_ReportOnlyLeavesBox ==
  no_translate => aabb = aabb0

C4_Witness ==
  pc = "done" /\ no_translate /\ calls >= 2 /\ base # aabb0.base

\* C5: with every cell beyond the leading faces solid and a capability
\* that stops at the first collision, the returned distance is the
\* smallest first-crossing time of the Initializer and the leading corner
\* on the blocking axis is an integer.
C5_StopsAtFirstCrossing ==
  (pc = "done" /\ ~Degenerate /\ callback = "stop" /\ ~OverlapsSolid
     /\ LeadingCellsSolid) =>
     /\ calls = 1
     /\ dist = FirstCrossing
     /\ IsInt(LeadingCorner)

\* C6: cumulative_t never decreases, and it and the returned distance
\* never exceed the magnitude of the displacement passed to sweep.
C6_CumulativeMonotoneBounded ==
  [][/\ RLe(cumulative_t, cumulative_t')
     /\ RLe(cumulative_t', Magnitude)
     /\ RLe(dist', Magnitude)]_vars

C6_Witness ==
  /\ Running
  /\ calls >= 2
  /\ RLt(Zero, cumulative_t)
  /\ RLt(cumulative_t, Magnitude)

C8_DegenerateReturnsZero ==
  Degenerate =>
     /\ pc \in {"start", "translate", "done"}
     /\ dist = Zero
     /\ calls = 0
     /\ aabb = aabb0

\* C9 as stated: the Boundary Stepper advances an axis of minimal t_next,
\* the lowest axis index among those that share the minimum.
C9_TiesToLowestAxis ==
  [][pc = "step" =>
       \A j \in Axes :
         /\ RLe(seg.t_next[axis'], seg.t_next[j])
         /\ seg.t_next[j] = seg.t_next[axis'] => axis' <= j]_vars

\* C9 amended: the Boundary Stepper advances an axis of minimal t_next,
\* the highest axis index among those that share the minimum.
C9_TiesToHighestAxis ==
  [][pc = "step" =>
       \A j \in Axes :
         /\ RLe(seg.t_next[axis'], seg.t_next[j])
         /\ seg.t_next[j] = seg.t_next[axis'] => axis' >= j]_vars

\* the last step advanced `axis` while a lower axis had the same t_next
C9_Witness ==
  /\ pc = "check"
  /\ ~Degenerate
  /\ \E j \in Axes : j < axis /\ seg.t_next[j] = seg.t

====
